---- MODULE Spec2Model ----
(***************************************************************************)
(* FocusPad API (backend/app/main.py): the in-memory task store, session   *)
(* store and their two id counters, with one action per HTTP handler.      *)
(*                                                                         *)
(* Representation.  A Python attribute that can hold None is an option:    *)
(* None is the empty set and a value v is the singleton {v}.  A string is  *)
(* the sequence of its characters.  A JSON request body is a record whose  *)
(* domain is the set of keys the client sent (pydantic's fields-set); a    *)
(* key sent as JSON null maps to None.  A datetime is an integer reading   *)
(* of the wall clock.  A handler is an operator from the request and the   *)
(* current state to its result: the HTTP status, the object returned and   *)
(* the stores and counters it leaves; the action of a route applies it.    *)
(* GET /ping reads no state and reset_state is called by the tests alone:  *)
(* neither is a step of the service.                                       *)
(***************************************************************************)
EXTENDS Integers, Sequences, FiniteSets, TLC

VARIABLES
    task_store,            \* _task_store: dict[int, Task]
    session_store,         \* _session_store: dict[int, FocusSession]
    task_id_counter,       \* the value next(_task_id_counter) returns next
    session_id_counter,    \* the value next(_session_id_counter) returns next
    clock,                 \* the reading datetime.now(UTC) returns
    task_ids_assigned,     \* history: ids create_task assigned, in order
    session_ids_assigned,  \* history: ids create_session assigned, in order
    deleted,               \* history: ids delete_task removed
    pc,                    \* concurrent requests: the line each one is at
    local                  \* concurrent requests: each one's local variables

store_vars == <<task_store, session_store, task_id_counter, session_id_counter>>
hist_vars == <<task_ids_assigned, session_ids_assigned, deleted>>
conc_vars == <<pc, local>>
vars == <<task_store, session_store, task_id_counter, session_id_counter, clock,
          task_ids_assigned, session_ids_assigned, deleted, pc, local>>

----------------------------------------------------------------------------
(* Bounds of the model. *)

MaxTaskId == 2
MaxSessionId == 2
MaxFieldTaskId == 1
MaxClock == 2
MaxProcs == 3

(* Field constraints of the pydantic models. *)

TitleMinLength == 1
TitleMaxLength == 120
DescriptionMaxLength == 1000
EstimatedMinutesMin == 1
EstimatedMinutesMax == 720
SecondsMin == 60
SecondsMax == 12 * 60 * 60
NoteMaxLength == 240
CounterStart == 1

Priorities == {"low", "medium", "high"}

----------------------------------------------------------------------------
(* Values. *)

None == {}
Some(v) == {v}
the(o) == CHOOSE v \in o : TRUE

Str(n) == [i \in 1..n |-> "x"]

EmptyDict == << >>

(* d[k] = v on a dict: the key keeps its place if present, else is added. *)
DictSet(d, k, v) == [x \in DOMAIN d \cup {k} |-> IF x = k THEN v ELSE d[x]]

(* d.pop(k) *)
DictPop(d, k) == [x \in DOMAIN d \ {k} |-> d[x]]

(* field f of a request body, with the model's default when the key is absent *)
Get(body, f, default) == IF f \in DOMAIN body THEN body[f] ELSE default

(* _now() *)
now == clock

----------------------------------------------------------------------------
(* Request validation: the Field(...) constraints.  A failure is a 422     *)
(* raised before the handler runs.                                         *)

StrOk(o, lo, hi) == o # None /\ Len(the(o)) >= lo /\ Len(the(o)) <= hi
IntOk(o, lo, hi) == o # None /\ the(o) >= lo /\ the(o) <= hi

(* TaskBase / TaskCreate *)
TaskCreateValid(body) ==
    /\ "title" \in DOMAIN body
    /\ StrOk(body.title, TitleMinLength, TitleMaxLength)
    /\ "description" \in DOMAIN body =>
          body.description = None \/ StrOk(body.description, 0, DescriptionMaxLength)
    /\ "priority" \in DOMAIN body =>
          body.priority # None /\ the(body.priority) \in Priorities
    /\ "estimated_minutes" \in DOMAIN body =>
          \/ body.estimated_minutes = None
          \/ IntOk(body.estimated_minutes, EstimatedMinutesMin, EstimatedMinutesMax)

(* payload.model_dump() of a TaskCreate: every field, defaults filled in *)
TaskCreateDump(body) ==
    [title |-> body.title,
     description |-> Get(body, "description", None),
     priority |-> Get(body, "priority", Some("medium")),
     estimated_minutes |-> Get(body, "estimated_minutes", None)]

TaskUpdateFields == {"title", "description", "priority", "estimated_minutes", "completed"}

(* TaskUpdate: every field is optional and nullable *)
TaskUpdateValid(body) ==
    /\ "title" \in DOMAIN body =>
          body.title = None \/ StrOk(body.title, TitleMinLength, TitleMaxLength)
    /\ "description" \in DOMAIN body =>
          body.description = None \/ StrOk(body.description, 0, DescriptionMaxLength)
    /\ "priority" \in DOMAIN body =>
          body.priority = None \/ the(body.priority) \in Priorities
    /\ "estimated_minutes" \in DOMAIN body =>
          \/ body.estimated_minutes = None
          \/ IntOk(body.estimated_minutes, EstimatedMinutesMin, EstimatedMinutesMax)
    /\ "completed" \in DOMAIN body =>
          body.completed = None \/ the(body.completed) \in BOOLEAN

(* payload.model_dump(exclude_none=True): a plausible slip for exclude_unset *)
TaskUpdateDumpExcludeNone(body) ==
    [f \in {g \in DOMAIN body \cap TaskUpdateFields : body[g] # None} |-> body[f]]

(* payload.model_dump(exclude_unset=True) of a TaskUpdate: the keys the    *)
(* client sent, among the model's fields (other keys are ignored)          *)
TaskUpdateDump(body) == [f \in DOMAIN body \cap TaskUpdateFields |-> body[f]]

(* model.model_copy(update=d): no validation *)
model_copy(model, d) == [f \in DOMAIN model |-> IF f \in DOMAIN d THEN d[f] ELSE model[f]]

(* FocusSessionCreate *)
FocusSessionCreateValid(body) ==
    /\ "seconds" \in DOMAIN body
    /\ body.seconds >= SecondsMin
    /\ body.seconds <= SecondsMax
    /\ "note" \in DOMAIN body =>
          body.note = None \/ StrOk(body.note, 0, NoteMaxLength)

(* payload.model_dump() of a FocusSessionCreate *)
FocusSessionCreateDump(body) ==
    [task_id |-> Get(body, "task_id", None),
     seconds |-> body.seconds,
     note |-> Get(body, "note", None)]

----------------------------------------------------------------------------
(* State after the module is imported. *)

Init ==
    /\ task_store = EmptyDict
    /\ session_store = EmptyDict
    /\ task_id_counter = CounterStart
    /\ session_id_counter = CounterStart
    /\ clock = 1
    /\ task_ids_assigned = << >>
    /\ session_ids_assigned = << >>
    /\ deleted = {}
    /\ pc = [p \in 1..MaxProcs |-> "idle"]
    /\ local = [p \in 1..MaxProcs |-> EmptyDict]

(* A handler's result: the response and the state the handler leaves. *)
Result(code, returned, tasks, sessions, task_counter, session_counter) ==
    [status |-> code,
     body |-> returned,
     task_store |-> tasks,
     session_store |-> sessions,
     task_id_counter |-> task_counter,
     session_id_counter |-> session_counter]

(* A response that leaves the stores and counters as they are: an          *)
(* exception raised, or the answer of a read.                              *)
Respond(code, returned) ==
    Result(code, returned, task_store, session_store, task_id_counter, session_id_counter)

(* The state after a handler has run. *)
Apply(result) ==
    /\ task_store' = result.task_store
    /\ session_store' = result.session_store
    /\ task_id_counter' = result.task_id_counter
    /\ session_id_counter' = result.session_id_counter

(* The wall clock advances between requests. *)
Tick ==
    /\ clock' = clock + 1
    /\ UNCHANGED <<store_vars, hist_vars, conc_vars>>

----------------------------------------------------------------------------
(* GET /tasks *)

(* sorted() compares the key tuples (task.completed, -timestamp): None and *)
(* a bool are unequal and unordered, so comparing them raises TypeError.   *)
ListTasksRaises ==
    \E a, b \in DOMAIN task_store :
        task_store[a].completed = None /\ task_store[b].completed # None

(* key(a) < key(b) for two tasks whose keys can be compared *)
KeyLess(a, b) ==
    LET ca == a.completed = Some(TRUE)
        cb == b.completed = Some(TRUE)
    IN  \/ ~ca /\ cb
        \/ ca = cb /\ -a.created_at < -b.created_at

(* a comes before b in sorted(_task_store.values(), key=...): by key, and  *)
(* for equal keys in the dict's order, which is the order of insertion and *)
(* so of ids (sorted() is stable)                                          *)
SortsBefore(a, b) ==
    \/ KeyLess(task_store[a], task_store[b])
    \/ /\ ~KeyLess(task_store[b], task_store[a])
       /\ a < b

RECURSIVE SortedTasks(_)
SortedTasks(ids) ==
    IF ids = {} THEN << >>
    ELSE LET first == CHOOSE a \in ids : \A b \in ids \ {a} : SortsBefore(a, b)
         IN  <<task_store[first]>> \o SortedTasks(ids \ {first})

list_tasks ==
    IF ListTasksRaises
    THEN Respond("500", << >>)
    ELSE Respond("200", SortedTasks(DOMAIN task_store))

GetTasks ==
    /\ Apply(list_tasks)
    /\ UNCHANGED <<hist_vars, clock, conc_vars>>

----------------------------------------------------------------------------
(* POST /tasks *)

(* Task(id=task_id, completed=False, created_at=_now(), **payload.model_dump()) *)
NewTask(task_id, payload) ==
    [id |-> task_id,
     completed |-> Some(FALSE),
     created_at |-> now,
     title |-> payload.title,
     description |-> payload.description,
     priority |-> payload.priority,
     estimated_minutes |-> payload.estimated_minutes]

(* task_id = len(_task_store) + 1: a plausible slip that reuses ids *)
create_task_len_id(body) ==
    IF ~TaskCreateValid(body) THEN Respond("422", None)
    ELSE
        LET task_id == Cardinality(DOMAIN task_store) + 1
            task == NewTask(task_id, TaskCreateDump(body))
        IN  Result("201", Some(task), DictSet(task_store, task_id, task),
                   session_store, task_id_counter + 1, session_id_counter)

create_task(body) ==
    IF ~TaskCreateValid(body) THEN Respond("422", None)
    ELSE
        LET task_id == task_id_counter
            task == NewTask(task_id, TaskCreateDump(body))
        IN  Result("201", Some(task), DictSet(task_store, task_id, task),
                   session_store, task_id_counter + 1, session_id_counter)

PostTasks(body) ==
    LET result == create_task(body)
    IN  /\ Apply(result)
        /\ task_ids_assigned' =
               IF result.status = "201"
               THEN Append(task_ids_assigned, the(result.body).id)
               ELSE task_ids_assigned
        /\ UNCHANGED <<session_ids_assigned, deleted, clock, conc_vars>>

----------------------------------------------------------------------------
(* PATCH /tasks/{task_id} *)

update_task(task_id, body) ==
    IF ~TaskUpdateValid(body) THEN Respond("422", None)
    ELSE IF task_id \notin DOMAIN task_store THEN Respond("404", None)
    ELSE
        LET stored_task == task_store[task_id]
            updated == model_copy(stored_task, TaskUpdateDump(body))
        IN  Result("200", Some(updated), DictSet(task_store, task_id, updated),
                   session_store, task_id_counter, session_id_counter)

PatchTask(task_id, body) ==
    /\ Apply(update_task(task_id, body))
    /\ UNCHANGED <<hist_vars, clock, conc_vars>>

----------------------------------------------------------------------------
(* DELETE /tasks/{task_id} *)

(* a cascading delete: a plausible variant that also drops the task's sessions *)
delete_task_cascade(task_id) ==
    IF task_id \notin DOMAIN task_store THEN Respond("404", None)
    ELSE Result("204", None, DictPop(task_store, task_id),
                [s \in {x \in DOMAIN session_store :
                            session_store[x].task_id # Some(task_id)}
                    |-> session_store[s]],
                task_id_counter, session_id_counter)

delete_task(task_id) ==
    IF task_id \notin DOMAIN task_store THEN Respond("404", None)
    ELSE Result("204", None, DictPop(task_store, task_id), session_store,
                task_id_counter, session_id_counter)

DeleteTask(task_id) ==
    LET result == delete_task(task_id)
    IN  /\ Apply(result)
        /\ deleted' = IF result.status = "204" THEN deleted \cup {task_id} ELSE deleted
        /\ UNCHANGED <<task_ids_assigned, session_ids_assigned, clock, conc_vars>>

----------------------------------------------------------------------------
(* GET /sessions *)

(* a comes before b in sorted(..., key=created_at, reverse=True): by       *)
(* created_at descending, equal ones in the dict's order                   *)
RECURSIVE SortedSessions(_)
SortedSessions(ids) ==
    IF ids = {} THEN << >>
    ELSE LET first == CHOOSE a \in ids : \A b \in ids \ {a} :
                         \/ session_store[a].created_at > session_store[b].created_at
                         \/ /\ session_store[a].created_at = session_store[b].created_at
                            /\ a < b
         IN  <<session_store[first]>> \o SortedSessions(ids \ {first})

list_sessions == Respond("200", SortedSessions(DOMAIN session_store))

GetSessions ==
    /\ Apply(list_sessions)
    /\ UNCHANGED <<hist_vars, clock, conc_vars>>

----------------------------------------------------------------------------
(* POST /sessions *)

(* FocusSession(id=session_id, created_at=_now(), **payload.model_dump()) *)
NewSession(session_id, payload) ==
    [id |-> session_id,
     created_at |-> now,
     task_id |-> payload.task_id,
     seconds |-> payload.seconds,
     note |-> payload.note]

(* the condition of the handler's first statement *)
TaskNotFound(payload) ==
    payload.task_id # None /\ the(payload.task_id) \notin DOMAIN task_store

(* next() called before the task_id check: a plausible slip *)
create_session_id_first(body) ==
    IF ~FocusSessionCreateValid(body) THEN Respond("422", None)
    ELSE IF TaskNotFound(FocusSessionCreateDump(body))
    THEN Result("404", None, task_store, session_store,
                task_id_counter, session_id_counter + 1)
    ELSE
        LET session_id == session_id_counter
            session == NewSession(session_id, FocusSessionCreateDump(body))
        IN  Result("201", Some(session), task_store,
                   DictSet(session_store, session_id, session),
                   task_id_counter, session_id_counter + 1)

(* the task_id check left out: a plausible slip *)
create_session_unchecked(body) ==
    IF ~FocusSessionCreateValid(body) THEN Respond("422", None)
    ELSE
        LET session_id == session_id_counter
            session == NewSession(session_id, FocusSessionCreateDump(body))
        IN  Result("201", Some(session), task_store,
                   DictSet(session_store, session_id, session),
                   task_id_counter, session_id_counter + 1)

(* one counter shared by tasks and sessions: a plausible slip *)
create_session_shared_counter(body) ==
    IF ~FocusSessionCreateValid(body) THEN Respond("422", None)
    ELSE IF TaskNotFound(FocusSessionCreateDump(body)) THEN Respond("404", None)
    ELSE
        LET session_id == task_id_counter
            session == NewSession(session_id, FocusSessionCreateDump(body))
        IN  Result("201", Some(session), task_store,
                   DictSet(session_store, session_id, session),
                   task_id_counter + 1, session_id_counter + 1)

create_session(body) ==
    IF ~FocusSessionCreateValid(body) THEN Respond("422", None)
    ELSE IF TaskNotFound(FocusSessionCreateDump(body)) THEN Respond("404", None)
    ELSE
        LET session_id == session_id_counter
            session == NewSession(session_id, FocusSessionCreateDump(body))
        IN  Result("201", Some(session), task_store,
                   DictSet(session_store, session_id, session),
                   task_id_counter, session_id_counter + 1)

PostSessions(body) ==
    LET result == create_session(body)
    IN  /\ Apply(result)
        /\ session_ids_assigned' =
               IF result.status = "201"
               THEN Append(session_ids_assigned, the(result.body).id)
               ELSE session_ids_assigned
        /\ UNCHANGED <<task_ids_assigned, deleted, clock, conc_vars>>

----------------------------------------------------------------------------
(* GET /stats *)

RECURSIVE SumSeconds(_)
SumSeconds(ids) ==
    IF ids = {} THEN 0
    ELSE LET s == CHOOSE x \in ids : TRUE
         IN  session_store[s].seconds + SumSeconds(ids \ {s})

(* sum(task.completed for ...) adds each value to an int: None raises TypeError *)
GetStatsRaises == \E t \in DOMAIN task_store : task_store[t].completed = None

(* The integer fields of the StatsResponse.  The two float fields and      *)
(* focus_days read the session store alone and are left out.               *)
get_stats ==
    IF GetStatsRaises THEN Respond("500", None)
    ELSE Respond("200",
           Some([total_sessions |-> Cardinality(DOMAIN session_store),
                 total_focus_minutes |-> SumSeconds(DOMAIN session_store) \div 60,
                 completed_tasks |->
                     Cardinality({t \in DOMAIN task_store :
                                     task_store[t].completed = Some(TRUE)}),
                 active_tasks |->
                     Cardinality({t \in DOMAIN task_store :
                                     task_store[t].completed # Some(TRUE)})]))

GetStats ==
    /\ Apply(get_stats)
    /\ UNCHANGED <<hist_vars, clock, conc_vars>>

----------------------------------------------------------------------------
(* Request bodies.  A field of a body is drawn as a set: empty when the    *)
(* client omits the key, else holding the value sent.                      *)

Body(fields) == [f \in {g \in DOMAIN fields : fields[g] # {}} |-> the(fields[f])]

Omitted == {}
Sent(values) == {{v} : v \in values}

(* task ids a client may name: every id the bound allows, and one beyond *)
TaskIds == 1..(MaxTaskId + 1)

TaskCreateBodies ==
    {Body([title |-> t]) : t \in Sent({Some(Str(0)), Some(Str(1))})}

TaskUpdateBodies ==
    {Body([completed |-> c]) : c \in Sent({None, Some(FALSE), Some(TRUE)})}

(* session bodies sent: task_id omitted, naming the first task or naming a *)
(* task never created, with two pairs of seconds and note; task_id null;   *)
(* and one rejected body for each constraint                               *)
SessionCreateBodies ==
    {Body([task_id |-> t, seconds |-> sn[1], note |-> sn[2]]) :
        t \in {Omitted} \cup Sent({Some(CounterStart), Some(MaxTaskId + 1)}),
        sn \in {<<{60}, Omitted>>, <<{90}, {Some(Str(3))}>>}}
    \cup
    {[task_id |-> None, seconds |-> 60, note |-> None],
     [seconds |-> SecondsMin - 1],
     [seconds |-> SecondsMax + 1, task_id |-> Some(1)],
     [seconds |-> 60, note |-> Some(Str(NoteMaxLength + 1))],
     [note |-> Some(Str(3))]}

----------------------------------------------------------------------------
(* The service: requests are handled one at a time, each handler to its    *)
(* end (the handlers are coroutines with no await in them).                *)

Next ==
    \/ \E body \in TaskCreateBodies :
          task_id_counter <= MaxTaskId /\ PostTasks(body)
    \/ \E task_id \in TaskIds, body \in TaskUpdateBodies : PatchTask(task_id, body)
    \/ \E task_id \in TaskIds : DeleteTask(task_id)
    \/ \E body \in SessionCreateBodies :
          session_id_counter <= MaxSessionId /\ PostSessions(body)
    \/ GetTasks
    \/ GetSessions
    \/ GetStats
    \/ clock < MaxClock /\ Tick

Spec == Init /\ [][Next]_vars

----------------------------------------------------------------------------
(* The task fields: one task store whose requests exercise every field of  *)
(* TaskCreate and TaskUpdate: omitted, null, a valid value, a value out of *)
(* range, and keys that are no field of the model.                         *)

FieldTaskIds == 1..(MaxFieldTaskId + 1)

FieldCreateBodies ==
    {Body([title |-> t, description |-> d, priority |-> p, estimated_minutes |-> e]) :
        t \in {Omitted} \cup Sent({None, Some(Str(TitleMinLength - 1)), Some(Str(1)),
                                    Some(Str(TitleMaxLength + 1))}),
        d \in {Omitted} \cup Sent({Some(Str(2)), Some(Str(DescriptionMaxLength + 1))}),
        p \in {Omitted} \cup Sent({None, Some("high"), Some("urgent")}),
        e \in {Omitted} \cup Sent({Some(45), Some(EstimatedMinutesMin - 1),
                                    Some(EstimatedMinutesMax + 1)})}

(* update bodies: up to two of the fields sent, each as null or a valid    *)
(* value, with or without the keys id and created_at, which are no field   *)
(* of TaskUpdate; bodies of three and of all five fields; and one body     *)
(* rejected for each constraint                                            *)
AllUpdateBodies ==
    {body \in
        {Body([title |-> t, description |-> d, priority |-> p, estimated_minutes |-> e,
               completed |-> c, id |-> x[1], created_at |-> x[2]]) :
            t \in {Omitted} \cup Sent({None, Some(Str(1))}),
            d \in {Omitted} \cup Sent({None, Some(Str(2))}),
            p \in {Omitted} \cup Sent({None, Some("high")}),
            e \in {Omitted} \cup Sent({None, Some(45)}),
            c \in {Omitted} \cup Sent({None, Some(FALSE), Some(TRUE)}),
            x \in {<<Omitted, Omitted>>, <<{99}, {0}>>}} :
        Cardinality(DOMAIN body \cap TaskUpdateFields) <= 2}
    \cup
    {[completed |-> Some(TRUE), priority |-> Some("high"), estimated_minutes |-> None],
     [title |-> None, description |-> None, priority |-> None,
      estimated_minutes |-> None, completed |-> None],
     [title |-> Some(Str(1)), description |-> Some(Str(2)), priority |-> Some("high"),
      estimated_minutes |-> Some(45), completed |-> Some(TRUE), id |-> 99, created_at |-> 0]}
    \cup
    {[title |-> Some(Str(TitleMinLength - 1))],
     [title |-> Some(Str(TitleMaxLength + 1))],
     [description |-> Some(Str(DescriptionMaxLength + 1))],
     [priority |-> Some("urgent")],
     [estimated_minutes |-> Some(EstimatedMinutesMin - 1)],
     [completed |-> Some(TRUE), estimated_minutes |-> Some(EstimatedMinutesMax + 1)]}

(* the bodies sent: those of a single key, the body with no key, and the   *)
(* bodies of three or more keys (every task state the bodies of            *)
(* AllUpdateBodies can build up is reached with these)                     *)
FieldUpdateBodies ==
    {body \in AllUpdateBodies : Cardinality(DOMAIN body) \notin {2, 4}}

NextFields ==
    \/ \E body \in FieldCreateBodies :
          task_id_counter <= MaxFieldTaskId /\ PostTasks(body)
    \/ \E task_id \in FieldTaskIds, body \in FieldUpdateBodies : PatchTask(task_id, body)
    \/ \E task_id \in FieldTaskIds : DeleteTask(task_id)
    \/ GetTasks
    \/ GetStats
    \/ clock < MaxClock /\ Tick

SpecFields == Init /\ [][NextFields]_vars

----------------------------------------------------------------------------
(* Concurrent creates.  Each of MaxProcs requests is one POST /tasks or    *)
(* POST /sessions, run statement by statement, and the statements of       *)
(* different requests interleave in every order.  pc[p] is the source line *)
(* request p runs next; next() on an itertools.count is one indivisible    *)
(* call.  (The server runs the coroutines on one event loop, which never   *)
(* switches inside a handler: its schedules are among these.)              *)

Procs == 1..MaxProcs

Goto(p, line) == pc' = [pc EXCEPT ![p] = line]

(* request p arrives with a valid TaskCreate body of its own *)
BeginCreateTask(p) ==
    /\ pc[p] = "idle"
    /\ Goto(p, "127")
    /\ local' = [local EXCEPT ![p] =
                    [op |-> "create_task",
                     payload |-> TaskCreateDump([title |-> Some(Str(p))]),
                     id |-> 0,
                     object |-> None,
                     status |-> "none"]]
    /\ UNCHANGED <<store_vars, hist_vars, clock>>

(* task_id = len(_task_store) + 1: an id read off the store, not drawn     *)
(* from the counter: a plausible slip                                      *)
CreateTask127LenId(p) ==
    /\ pc[p] = "127"
    /\ local' = [local EXCEPT ![p].id = Cardinality(DOMAIN task_store) + 1]
    /\ task_id_counter' = task_id_counter + 1
    /\ task_ids_assigned' = Append(task_ids_assigned, local'[p].id)
    /\ Goto(p, "128")
    /\ UNCHANGED <<task_store, session_store, session_id_counter,
                   session_ids_assigned, deleted, clock>>

(* task_id = next(_task_id_counter) *)
CreateTask127(p) ==
    /\ pc[p] = "127"
    /\ local' = [local EXCEPT ![p].id = task_id_counter]
    /\ task_id_counter' = task_id_counter + 1
    /\ task_ids_assigned' = Append(task_ids_assigned, local'[p].id)
    /\ Goto(p, "128")
    /\ UNCHANGED <<task_store, session_store, session_id_counter,
                   session_ids_assigned, deleted, clock>>

(* task = Task(id=task_id, completed=False, created_at=_now(), ...) *)
CreateTask128(p) ==
    /\ pc[p] = "128"
    /\ local' = [local EXCEPT ![p].object = Some(NewTask(local[p].id, local[p].payload))]
    /\ Goto(p, "134")
    /\ UNCHANGED <<store_vars, hist_vars, clock>>

(* _task_store[task_id] = task; return task.model_copy() *)
CreateTask134(p) ==
    /\ pc[p] = "134"
    /\ task_store' = DictSet(task_store, local[p].id, the(local[p].object))
    /\ local' = [local EXCEPT ![p].status = "201"]
    /\ Goto(p, "done")
    /\ UNCHANGED <<session_store, task_id_counter, session_id_counter, hist_vars, clock>>

(* request p arrives with a valid FocusSessionCreate body of its own, its  *)
(* task_id omitted or naming the first task                                *)
BeginCreateSession(p, task_id) ==
    /\ pc[p] = "idle"
    /\ Goto(p, "171")
    /\ local' = [local EXCEPT ![p] =
                    [op |-> "create_session",
                     payload |-> FocusSessionCreateDump(
                                    Body([task_id |-> task_id, seconds |-> {SecondsMin + p}])),
                     id |-> 0,
                     object |-> None,
                     status |-> "none"]]
    /\ UNCHANGED <<store_vars, hist_vars, clock>>

(* if payload.task_id is not None and payload.task_id not in _task_store:  *)
(*     raise HTTPException(status_code=404, ...)                           *)
CreateSession171(p) ==
    /\ pc[p] = "171"
    /\ IF TaskNotFound(local[p].payload)
       THEN /\ local' = [local EXCEPT ![p].status = "404"]
            /\ Goto(p, "done")
       ELSE /\ Goto(p, "174")
            /\ UNCHANGED local
    /\ UNCHANGED <<store_vars, hist_vars, clock>>

(* session_id = next(_session_id_counter) *)
CreateSession174(p) ==
    /\ pc[p] = "174"
    /\ local' = [local EXCEPT ![p].id = session_id_counter]
    /\ session_id_counter' = session_id_counter + 1
    /\ session_ids_assigned' = Append(session_ids_assigned, local'[p].id)
    /\ Goto(p, "175")
    /\ UNCHANGED <<task_store, session_store, task_id_counter,
                   task_ids_assigned, deleted, clock>>

(* session = FocusSession(id=session_id, created_at=_now(), ...) *)
CreateSession175(p) ==
    /\ pc[p] = "175"
    /\ local' = [local EXCEPT ![p].object = Some(NewSession(local[p].id, local[p].payload))]
    /\ Goto(p, "180")
    /\ UNCHANGED <<store_vars, hist_vars, clock>>

(* _session_store[session_id] = session; return session.model_copy() *)
CreateSession180(p) ==
    /\ pc[p] = "180"
    /\ session_store' = DictSet(session_store, local[p].id, the(local[p].object))
    /\ local' = [local EXCEPT ![p].status = "201"]
    /\ Goto(p, "done")
    /\ UNCHANGED <<task_store, task_id_counter, session_id_counter, hist_vars, clock>>

NextConc ==
    \/ \E p \in Procs : BeginCreateTask(p)
    \/ \E p \in Procs : CreateTask127(p)
    \/ \E p \in Procs : CreateTask128(p)
    \/ \E p \in Procs : CreateTask134(p)
    \/ \E p \in Procs, task_id \in {Omitted} \cup Sent({Some(CounterStart)}) :
          BeginCreateSession(p, task_id)
    \/ \E p \in Procs : CreateSession171(p)
    \/ \E p \in Procs : CreateSession174(p)
    \/ \E p \in Procs : CreateSession175(p)
    \/ \E p \in Procs : CreateSession180(p)
    \/ clock < MaxClock /\ Tick

SpecConc == Init /\ [][NextConc]_vars

----------------------------------------------------------------------------
(* Properties of the service (Spec). *)

StrictlyIncreasingFromStart(ids) ==
    /\ Len(ids) > 0 => ids[1] = CounterStart
    /\ \A i, j \in 1..Len(ids) : i < j => ids[i] < ids[j]

(* C1: the ids create_task assigns strictly increase from 1 and none is   *)
(* assigned twice, also after deletes; the same holds for the ids          *)
(* create_session assigns, which start at 1 whatever the task counter is.  *)
C1_IdsStrictlyIncrease ==
    /\ StrictlyIncreasingFromStart(task_ids_assigned)
    /\ StrictlyIncreasingFromStart(session_ids_assigned)

(* two task ids assigned, one of the tasks deleted and one stored, and two  *)
(* session ids assigned                                                    *)
C1_Witness ==
    /\ Len(task_ids_assigned) = 2
    /\ deleted # {}
    /\ DOMAIN task_store # {}
    /\ Len(session_ids_assigned) = 2

KeepsState(result) ==
    /\ result.task_store = task_store
    /\ result.session_store = session_store
    /\ result.task_id_counter = task_id_counter
    /\ result.session_id_counter = session_id_counter

(* C3: update_task, delete_task and create_session, when they answer 404,  *)
(* leave both stores and both counters as they were: a failed              *)
(* create_session consumes no session id.                                  *)
C3_NotFoundKeepsState ==
    /\ \A task_id \in TaskIds, body \in TaskUpdateBodies :
          update_task(task_id, body).status = "404" => KeepsState(update_task(task_id, body))
    /\ \A task_id \in TaskIds :
          delete_task(task_id).status = "404" => KeepsState(delete_task(task_id))
    /\ \A body \in SessionCreateBodies :
          create_session(body).status = "404" => KeepsState(create_session(body))

(* stores that are not empty, where each of the three handlers has a       *)
(* request it answers with 404                                             *)
C3_Witness ==
    /\ DOMAIN task_store # {}
    /\ DOMAIN session_store # {}
    /\ \E task_id \in TaskIds, body \in TaskUpdateBodies :
          update_task(task_id, body).status = "404"
    /\ \E task_id \in TaskIds : delete_task(task_id).status = "404"
    /\ \E body \in SessionCreateBodies :
          "task_id" \in DOMAIN body /\ body.task_id \in {Some(id) : id \in deleted}
              /\ create_session(body).status = "404"

(* C5: list_tasks answers with every stored task exactly once, incomplete  *)
(* tasks before completed ones, and each group by created_at descending.   *)
C5_ListTasksOrdered ==
    LET result == list_tasks
        listed == result.body
    IN  /\ result.status = "200"
        /\ Len(listed) = Cardinality(DOMAIN task_store)
        /\ \A t \in DOMAIN task_store : \E i \in 1..Len(listed) : listed[i] = task_store[t]
        /\ \A i, j \in 1..Len(listed) :
              i < j =>
                 /\ listed[i].completed = Some(TRUE) => listed[j].completed = Some(TRUE)
                 /\ listed[i].completed = listed[j].completed =>
                       listed[i].created_at >= listed[j].created_at

(* the session bodies that name the task id and pass validation *)
SessionBodiesNaming(task_id) ==
    {[task_id |-> Some(task_id), seconds |-> 60],
     [task_id |-> Some(task_id), seconds |-> 90, note |-> Some(Str(3))]}

(* C6: once a task id was deleted, list_tasks never answers with a task of *)
(* that id and create_session answers 404 to every body that names it.     *)
C6_DeletedStaysGone ==
    \A task_id \in deleted :
        /\ \A i \in 1..Len(list_tasks.body) : list_tasks.body[i].id # task_id
        /\ task_id \notin DOMAIN list_tasks.task_store
        /\ \A body \in SessionBodiesNaming(task_id) : create_session(body).status = "404"

(* a deleted id, and a task of a later id stored and listed *)
C6_Witness ==
    /\ deleted # {}
    /\ \E t \in DOMAIN task_store : \A d \in deleted : t > d
    /\ list_tasks.status = "200"
    /\ Len(list_tasks.body) > 0

(* C8: no step modifies or removes a stored session; deleting the task a   *)
(* session names neither deletes the session nor clears its task_id.       *)
C8_SessionsImmutable ==
    [][\A s \in DOMAIN session_store :
           /\ s \in DOMAIN session_store'
           /\ session_store'[s] = session_store[s]]_vars

(* a stored session that names a deleted task, and a session created later *)
C8_Witness ==
    \E s, later \in DOMAIN session_store :
        /\ session_store[s].task_id # None
        /\ the(session_store[s].task_id) \in deleted
        /\ s < later

(* C9: a session stored with a task_id names a task that was in the task   *)
(* store when the session was created; and a valid body with task_id       *)
(* omitted or null is accepted whatever the task store holds.              *)
C9_SessionNamesExistingTask ==
    /\ [][\A s \in DOMAIN session_store' \ DOMAIN session_store :
              session_store'[s].task_id # None =>
                  the(session_store'[s].task_id) \in DOMAIN task_store]_vars
    /\ [](\A body \in SessionCreateBodies :
              /\ FocusSessionCreateValid(body)
              /\ Get(body, "task_id", None) = None
              => create_session(body).status = "201")

(* a session naming a task, and a session without task_id stored while the *)
(* task store is empty                                                     *)
C9_Witness ==
    /\ \E s \in DOMAIN session_store : session_store[s].task_id # None
    /\ \E s \in DOMAIN session_store : session_store[s].task_id = None
    /\ DOMAIN task_store = {}

(* C10: get_stats changes nothing, does not fail, and its integer fields   *)
(* are the aggregates of the stores: the number of sessions, the floor of  *)
(* the summed seconds over 60, and the numbers of completed and of         *)
(* incomplete tasks, which add up to the number of tasks.                  *)
C10_StatsAreAggregates ==
    LET result == get_stats
    IN  /\ KeepsState(result)
        /\ result.status = "200"
        /\ LET stats == the(result.body)
               total_seconds == SumSeconds(DOMAIN session_store)
           IN  /\ stats.total_sessions = Cardinality(DOMAIN session_store)
               /\ stats.total_focus_minutes * 60 <= total_seconds
               /\ total_seconds < (stats.total_focus_minutes + 1) * 60
               /\ stats.completed_tasks =
                     Cardinality({t \in DOMAIN task_store :
                                     task_store[t].completed = Some(TRUE)})
               /\ stats.active_tasks =
                     Cardinality({t \in DOMAIN task_store :
                                     task_store[t].completed = Some(FALSE)})
               /\ stats.completed_tasks + stats.active_tasks =
                     Cardinality(DOMAIN task_store)

----------------------------------------------------------------------------
(* Properties of the task fields (SpecFields). *)

(* C2: an update answered 200 stores, for the task named, each field the   *)
(* body holds with the body's value (null included) and every other field, *)
(* id and created_at among them, with its prior value; nothing else        *)
(* changes.                                                                *)
C2_UpdateIsSparse ==
    \A task_id \in DOMAIN task_store, body \in AllUpdateBodies :
        LET result == update_task(task_id, body)
            stored == task_store[task_id]
        IN  result.status = "200" =>
              /\ DOMAIN result.task_store = DOMAIN task_store
              /\ \A other \in DOMAIN task_store \ {task_id} :
                    result.task_store[other] = task_store[other]
              /\ DOMAIN result.task_store[task_id] = DOMAIN stored
              /\ \A f \in TaskUpdateFields :
                    result.task_store[task_id][f] =
                        IF f \in DOMAIN body THEN body[f] ELSE stored[f]
              /\ result.task_store[task_id].id = stored.id
              /\ result.task_store[task_id].created_at = stored.created_at
              /\ result.session_store = session_store
              /\ result.task_id_counter = task_id_counter
              /\ result.session_id_counter = session_id_counter

(* a task created with a description and an estimate, then updated with    *)
(* completed, priority and a null estimate, at a later clock reading       *)
C2_Witness ==
    \E t \in DOMAIN task_store :
        /\ task_store[t].completed = Some(TRUE)
        /\ task_store[t].priority = Some("high")
        /\ task_store[t].estimated_minutes = None
        /\ task_store[t].description = Some(Str(2))
        /\ task_store[t].title = Some(Str(1))
        /\ task_store[t].created_at < clock

(* C4: every stored task has a title of 1 to 120 characters, a priority    *)
(* among low, medium and high, a boolean completed and an                  *)
(* estimated_minutes that is null or in 1..720.                            *)
C4_TasksSatisfyConstraints ==
    \A t \in DOMAIN task_store :
        /\ StrOk(task_store[t].title, TitleMinLength, TitleMaxLength)
        /\ task_store[t].priority # None
        /\ the(task_store[t].priority) \in Priorities
        /\ task_store[t].completed # None
        /\ the(task_store[t].completed) \in BOOLEAN
        /\ \/ task_store[t].estimated_minutes = None
           \/ IntOk(task_store[t].estimated_minutes, EstimatedMinutesMin, EstimatedMinutesMax)

----------------------------------------------------------------------------
(* Properties of concurrent creates (SpecConc). *)

(* request p holds an id it drew *)
HoldsId(p) == pc[p] \in {"128", "134", "175", "180"} \/ (pc[p] = "done" /\ local[p].status = "201")

(* the store request p inserts into *)
StoreOf(p) == IF local[p].op = "create_task" THEN task_store ELSE session_store

(* C7: under every interleaving of create requests, no two creates of the  *)
(* same kind hold the same id, and the record of every create that         *)
(* returned is in its store under its id, as that create built it.         *)
C7_ConcurrentCreatesAtomic ==
    /\ \A p, q \in Procs :
          /\ p # q
          /\ HoldsId(p)
          /\ HoldsId(q)
          /\ local[p].op = local[q].op
          => local[p].id # local[q].id
    /\ \A p \in Procs :
          pc[p] = "done" /\ local[p].status = "201" =>
              /\ local[p].id \in DOMAIN StoreOf(p)
              /\ StoreOf(p)[local[p].id] = the(local[p].object)

(* two creates overlapped: the one that drew the later id has returned     *)
(* while the one that drew the earlier id has not stored its record yet;   *)
(* and a create-session has returned as well                               *)
C7_Witness ==
    /\ \E p, q \in Procs :
          /\ local[p] # EmptyDict /\ local[q] # EmptyDict
          /\ local[p].op = "create_task" /\ local[q].op = "create_task"
          /\ pc[p] = "done" /\ pc[q] = "134"
          /\ local[q].id < local[p].id
    /\ \E r \in Procs :
          /\ local[r] # EmptyDict
          /\ local[r].op = "create_session"
          /\ pc[r] = "done" /\ local[r].status = "201"

====
